---- MODULE Spec2Model ----
(***************************************************************************)
(* uptime-kuma-sync.py: one-shot CLI that reconciles the domains file      *)
(* against the HTTP monitors of one parent group of an Uptime Kuma         *)
(* instance, over a socket.io connection.                                  *)
(*                                                                         *)
(* The model follows one process invocation step by step (main,            *)
(* authenticate, the four cmd_* modes, the monitorList push handler) and   *)
(* lets the tool be invoked again once a process has ended, as the         *)
(* scheduler that runs it does.  The remote service is the environment:    *)
(* it answers every call with ok, a rejection or nothing (timeout or       *)
(* transport error, which call_with_callback turns into None) and pushes   *)
(* its monitor list at its own discretion once a login has succeeded.      *)
(*                                                                         *)
(* Python dicts are modelled as sequences of [key, val] records in         *)
(* insertion order, which is the order Python iterates them in.            *)
(***************************************************************************)
EXTENDS Integers, Sequences, FiniteSets, TLC

\* ------------------------------------------------------------------------
\* Bounds of the model
\* ------------------------------------------------------------------------
\* Number of monitors the remote service holds before the first invocation.
MaxMonitors == 2
\* Number of process invocations in one behaviour.
MaxRuns == 2

\* ------------------------------------------------------------------------
\* Configuration (module constants of the script)
\* ------------------------------------------------------------------------
PARENT_GROUP_ID == 1
\* A parent group other than the configured one.
OtherGroup == PARENT_GROUP_ID + 1

None == "None"

\* Monitor settings of the script
MONITOR_INTERVAL == 60
MONITOR_RETRY_INTERVAL == 60
MONITOR_TIMEOUT == 30
MONITOR_MAX_RETRIES == 1
MONITOR_MAX_REDIRECTS == 10
DEFAULT_NOTIFICATION_IDS == <<1>>

Names == {"a.com", "b.com"}
\* sorted() order of the names (cmd_list prints sorted by name)
SortedNames == <<"a.com", "b.com">>
\* url the domains file gives for a name, and another url a monitor may carry
DesiredUrl == "https://site"
OtherUrl == "https://other"
\* what a monitor of the remote service may look like, identifier aside:
\* in the managed group (either url), in another group, or of another type
Shapes ==
  {[name |-> n, url |-> u, type |-> "http", parent |-> PARENT_GROUP_ID] :
     n \in Names, u \in {DesiredUrl, OtherUrl}}
  \cup {[name |-> n, url |-> DesiredUrl, type |-> "http", parent |-> OtherGroup] :
     n \in Names}
  \cup {[name |-> n, url |-> DesiredUrl, type |-> "ping", parent |-> PARENT_GROUP_ID] :
     n \in Names}

StoredToken == "jwt-stored"
NewToken == "jwt-new"
Modes == {"none", "sync", "list", "cleanup", "cleanup_confirm"}

VARIABLES
  \* --- what outlives a process ---
  run,            \* number of the current invocation
  hist,           \* what the earlier invocations did (history variable)
  domains_file,   \* DOMAINS_FILE: [exists, lines]; a line is its sequence of fields
  jwt_file,       \* JWT_FILE (Session Store): None when absent, else the token
  USERNAME,       \* configured username ("" when not configured)
  PASSWORD,       \* configured password ("" when not configured)
  remote,         \* monitors the remote service holds, in snapshot order
  next_id,        \* identifier the remote service gives the next monitor
  \* --- the process ---
  pc,             \* position of the main flow
  args,           \* the selected mode
  connected,      \* sio is connected
  server_session, \* the remote service has accepted a login on this socket
  exit_code,      \* <<>> while running, else <<the exit status>>
  exit_at,        \* where the process ended, "" while running (history)
  disconnected,   \* sio.disconnect() has been called in this run
  monitor_list,   \* global monitor_list: the Monitor Directory
  snapshot_seen,  \* a monitorList push was received in this run (history)
  authenticated,  \* global authenticated
  jwt_token,      \* global jwt_token
  domains,        \* local of the cmd_*: result of load_domains()
  existing,       \* local of the cmd_*: result of get_existing_monitors()
  idx,            \* position of the for loop of cmd_sync / cmd_cleanup_confirm
  count,          \* created / deleted counter of the running mode
  listed,         \* monitor lines printed by cmd_list / cmd_cleanup_preview
  report,         \* <<>>, then <<the summary the mode printed>>
  calls,          \* RPC calls of this run with their responses (history)
  Mread,          \* <<>>, then <<monitor_list as get_existing_monitors read it>>
  jwt_at_start    \* jwt_file when this run started (history)

envVars == <<run, hist, domains_file, jwt_file, USERNAME, PASSWORD, remote, next_id>>
procVars == <<pc, args, connected, server_session, exit_code, disconnected,
              monitor_list, snapshot_seen, authenticated, jwt_token>>
modeVars == <<domains, existing, idx, count, listed, report>>
histVars == <<calls, Mread, jwt_at_start, exit_at>>
vars == <<envVars, procVars, modeVars, histVars>>

\* ------------------------------------------------------------------------
\* Python dict helpers
\* ------------------------------------------------------------------------
Keys(d) == {d[i].key : i \in DOMAIN d}

\* d[k]
Get(d, k) == d[CHOOSE i \in DOMAIN d : d[i].key = k].val

\* d[k] = v : an existing key keeps its position and takes the new value
Put(d, k, v) ==
  IF k \in Keys(d)
  THEN [i \in DOMAIN d |-> IF d[i].key = k THEN [key |-> k, val |-> v] ELSE d[i]]
  ELSE Append(d, [key |-> k, val |-> v])

\* ------------------------------------------------------------------------
\* JWT management
\* ------------------------------------------------------------------------
\* load_jwt(): the content of JWT_FILE, None when the file does not exist
load_jwt == jwt_file

\* mutation: the token is not written
save_jwt_NotWritten(token) == jwt_file

\* save_jwt(token): the new content of JWT_FILE
save_jwt(token) == token

\* Python truthiness of a str-or-None value (if jwt_token:, if not USERNAME)
Truthy(v) == v # None /\ v # ""

\* ------------------------------------------------------------------------
\* The RPC channel
\* ------------------------------------------------------------------------
\* call_with_callback(event, data) up to sio.call: the call is emitted and
\* the main flow blocks; resp is "pending" until the call returns
\* what call_with_callback returns after a timeout or a transport error
\* (Python None); also the resp of a call that has not returned yet
NoResponse == [answered |-> FALSE, ok |-> FALSE, token |-> ""]

\* call_with_callback(event, data) up to sio.call: the call is emitted on
\* the log cs and the main flow blocks until it returns
Emit(cs, event, data) ==
  Append(cs, [event |-> event, data |-> data, done |-> FALSE, resp |-> NoResponse])

\* call_with_callback returning r: the response, or None
Return(r) == [calls EXCEPT ![Len(calls)].done = TRUE, ![Len(calls)].resp = r]

Outstanding == {i \in DOMAIN calls : ~calls[i].done}

\* response and response.get("ok")
IsOk(r) == r.answered /\ r.ok

\* what the remote service may answer to loginByToken, add and deleteMonitor
PlainResponses == {[answered |-> TRUE, ok |-> TRUE, token |-> ""],
                   [answered |-> TRUE, ok |-> FALSE, token |-> ""],
                   NoResponse}
\* what it may answer to login: a successful login may carry a new token
LoginResponses == PlainResponses \cup {[answered |-> TRUE, ok |-> TRUE, token |-> NewToken]}

\* ------------------------------------------------------------------------
\* Initial states
\* ------------------------------------------------------------------------
\* a domains file with one three-field line (name, address, url) per name of S
DomainsFileOf(S) ==
  LET F[i \in 0..Len(SortedNames)] ==
        IF i = 0 THEN <<>>
        ELSE IF SortedNames[i] \in S
             THEN Append(F[i-1], <<SortedNames[i], "192.0.2.1", DesiredUrl>>)
             ELSE F[i-1]
  IN [exists |-> TRUE, lines |-> F[Len(SortedNames)]]

MissingFile == [exists |-> FALSE, lines |-> <<>>]

\* the remote service numbers its monitors 1, 2, ... and sends them in that order
RemoteOf(f) == [i \in DOMAIN f |->
                  [id |-> i, name |-> f[i].name, url |-> f[i].url,
                   type |-> f[i].type, parent |-> f[i].parent]]

Remotes(n) == UNION {{RemoteOf(f) : f \in [1..k -> Shapes]} : k \in 0..n}

\* the globals of a fresh process (lines 40-43) and the locals of its mode
ProcessStart ==
  /\ pc = "main"
  /\ args \in Modes
  /\ connected = FALSE
  /\ server_session = FALSE
  /\ exit_code = <<>>
  /\ exit_at = ""
  /\ disconnected = FALSE
  /\ monitor_list = <<>>
  /\ snapshot_seen = FALSE
  /\ authenticated = FALSE
  /\ jwt_token = None
  /\ domains = <<>>
  /\ existing = <<>>
  /\ idx = 0
  /\ count = 0
  /\ listed = <<>>
  /\ report = <<>>
  /\ calls = <<>>
  /\ Mread = <<>>

\* every directory and domains file, with a stored token and credentials
InitReconcile ==
  /\ remote \in Remotes(MaxMonitors)
  /\ domains_file \in {MissingFile} \cup {DomainsFileOf(S) : S \in SUBSET Names}
  /\ jwt_file = StoredToken
  /\ USERNAME = "admin"
  /\ PASSWORD = "secret"

\* every session store (no file, an empty file, a token) and credential
\* configuration, with one obsolete monitor
InitAuth ==
  /\ remote \in {RemoteOf(<<[name |-> "b.com", url |-> DesiredUrl,
                            type |-> "http", parent |-> PARENT_GROUP_ID]>>)}
  /\ domains_file = DomainsFileOf({"a.com"})
  /\ jwt_file \in {None, "", StoredToken}
  /\ USERNAME \in {"", "admin"}
  /\ PASSWORD \in {"", "secret"}

Init ==
  /\ run = 1
  /\ hist = <<>>
  /\ InitReconcile \/ InitAuth
  /\ next_id = Len(remote) + 1
  /\ jwt_at_start = jwt_file
  /\ ProcessStart

\* ------------------------------------------------------------------------
\* main: argument check and connect
\* ------------------------------------------------------------------------
\* sys.exit(status) outside the try/finally of main
Exit(status, at) ==
  /\ pc' = "exited"
  /\ exit_code' = <<status>>
  /\ exit_at' = at

\* no mode flag: print_help(), sys.exit(0)
main_NoMode ==
  /\ pc = "main"
  /\ args = "none"
  /\ Exit(0, "usage")
  /\ UNCHANGED <<envVars, args, connected, server_session, disconnected,
                 monitor_list, snapshot_seen, authenticated, jwt_token,
                 modeVars, calls, Mread, jwt_at_start>>

\* sio.connect succeeds
main_Connect ==
  /\ pc = "main"
  /\ args # "none"
  /\ pc' = "authenticate"
  /\ connected' = TRUE
  /\ UNCHANGED <<envVars, args, server_session, exit_code, disconnected,
                 monitor_list, snapshot_seen, authenticated, jwt_token,
                 modeVars, histVars>>

\* sio.connect raises: sys.exit(1)
main_ConnectFailed ==
  /\ pc = "main"
  /\ args # "none"
  /\ Exit(1, "connect")
  /\ UNCHANGED <<envVars, args, connected, server_session, disconnected,
                 monitor_list, snapshot_seen, authenticated, jwt_token,
                 modeVars, calls, Mread, jwt_at_start>>

\* ------------------------------------------------------------------------
\* authenticate
\* ------------------------------------------------------------------------
\* lines 101-111, the fallback to username/password: sys.exit(1) without
\* credentials, else the login call is emitted
authenticate_Fallback(cs) ==
  IF ~Truthy(USERNAME) \/ ~Truthy(PASSWORD)
  THEN /\ Exit(1, "credentials")
       /\ calls' = cs
  ELSE /\ pc' = "login"
       /\ calls' = Emit(cs, "login",
                         [username |-> USERNAME, password |-> PASSWORD, token |-> ""])
       /\ UNCHANGED <<exit_code, exit_at>>

\* lines 90-93 with a token in JWT_FILE: loginByToken is emitted
authenticate_TryToken ==
  /\ pc = "authenticate"
  /\ Truthy(load_jwt)
  /\ jwt_token' = load_jwt
  /\ pc' = "loginByToken"
  /\ calls' = Emit(calls, "loginByToken", load_jwt)
  /\ UNCHANGED <<envVars, args, connected, server_session, exit_code, disconnected,
                 monitor_list, snapshot_seen, authenticated, modeVars, Mread,
                 jwt_at_start, exit_at>>

\* lines 90-91 without a token: straight to the fallback
authenticate_NoToken ==
  /\ pc = "authenticate"
  /\ ~Truthy(load_jwt)
  /\ jwt_token' = load_jwt
  /\ authenticate_Fallback(calls)
  /\ UNCHANGED <<envVars, args, connected, server_session, disconnected,
                 monitor_list, snapshot_seen, authenticated, modeVars, Mread,
                 jwt_at_start>>

\* mutation: no return after the successful token login, the flow runs on
\* into the fallback
authenticate_TokenAccepted_FallsThrough ==
  /\ pc = "loginByToken"
  /\ \E r \in PlainResponses :
       /\ IsOk(r)
       /\ authenticate_Fallback(Return(r))
  /\ authenticated' = TRUE
  /\ server_session' = TRUE
  /\ UNCHANGED <<envVars, args, connected, disconnected, monitor_list,
                 snapshot_seen, jwt_token, modeVars, Mread, jwt_at_start>>

\* lines 94-97: loginByToken answered ok
authenticate_TokenAccepted ==
  /\ pc = "loginByToken"
  /\ \E r \in PlainResponses :
       /\ IsOk(r)
       /\ calls' = Return(r)
  /\ authenticated' = TRUE
  /\ server_session' = TRUE
  /\ pc' = "sleep"
  /\ UNCHANGED <<envVars, args, connected, exit_code, disconnected, monitor_list,
                 snapshot_seen, jwt_token, modeVars, Mread, jwt_at_start, exit_at>>

\* lines 98-111: loginByToken rejected or unanswered, fall back
authenticate_TokenRejected ==
  /\ pc = "loginByToken"
  /\ \E r \in PlainResponses :
       /\ ~IsOk(r)
       /\ authenticate_Fallback(Return(r))
  /\ UNCHANGED <<envVars, args, connected, server_session, disconnected,
                 monitor_list, snapshot_seen, authenticated, jwt_token, modeVars,
                 Mread, jwt_at_start>>

\* mutation: the token of the login response is kept in memory only
authenticate_LoginAccepted_NoSave ==
  /\ pc = "login"
  /\ \E r \in LoginResponses :
       /\ IsOk(r)
       /\ calls' = Return(r)
       /\ jwt_token' = IF Truthy(r.token) THEN r.token ELSE jwt_token
  /\ authenticated' = TRUE
  /\ server_session' = TRUE
  /\ pc' = "sleep"
  /\ UNCHANGED <<envVars, args, connected, exit_code, disconnected, monitor_list,
                 snapshot_seen, modeVars, Mread, jwt_at_start, exit_at>>

\* lines 113-119: login answered ok; a token in the response is saved
authenticate_LoginAccepted ==
  /\ pc = "login"
  /\ \E r \in LoginResponses :
       /\ IsOk(r)
       /\ calls' = Return(r)
       /\ IF Truthy(r.token)
          THEN /\ jwt_file' = save_jwt(r.token)
               /\ jwt_token' = r.token
          ELSE UNCHANGED <<jwt_file, jwt_token>>
  /\ authenticated' = TRUE
  /\ server_session' = TRUE
  /\ pc' = "sleep"
  /\ UNCHANGED <<run, hist, domains_file, USERNAME, PASSWORD, remote, next_id,
                 args, connected, exit_code, disconnected, monitor_list,
                 snapshot_seen, modeVars, Mread, jwt_at_start, exit_at>>

\* mutation: a refused login is tried again
authenticate_LoginRejected_Retries ==
  /\ pc = "login"
  /\ \E r \in LoginResponses :
       /\ ~IsOk(r)
       /\ calls' = Emit(Return(r), "login",
                         [username |-> USERNAME, password |-> PASSWORD, token |-> ""])
  /\ UNCHANGED <<envVars, procVars, modeVars, Mread, jwt_at_start, exit_at>>

\* mutation: a refused login is ignored and the mode runs
authenticate_LoginRejected_Continues ==
  /\ pc = "login"
  /\ \E r \in LoginResponses :
       /\ ~IsOk(r)
       /\ calls' = Return(r)
  /\ pc' = "sleep"
  /\ UNCHANGED <<envVars, args, connected, server_session, exit_code, disconnected,
                 monitor_list, snapshot_seen, authenticated, jwt_token, modeVars,
                 Mread, jwt_at_start, exit_at>>

\* lines 120-123: login rejected or unanswered: sys.exit(1)
authenticate_LoginRejected ==
  /\ pc = "login"
  /\ \E r \in LoginResponses :
       /\ ~IsOk(r)
       /\ calls' = Return(r)
  /\ Exit(1, "login")
  /\ UNCHANGED <<envVars, args, connected, server_session, disconnected,
                 monitor_list, snapshot_seen, authenticated, jwt_token, modeVars,
                 Mread, jwt_at_start>>

\* ------------------------------------------------------------------------
\* The monitorList push
\* ------------------------------------------------------------------------
\* on_monitor_list(data): the remote service sends its full monitor list at
\* its own discretion once a login has succeeded on the socket; the handler
\* runs on the client's receiving thread, whatever the main flow is doing
on_monitor_list ==
  /\ connected
  /\ server_session
  /\ pc # "exited"
  /\ monitor_list' = remote
  /\ snapshot_seen' = TRUE
  /\ UNCHANGED <<envVars, pc, args, connected, server_session, exit_code,
                 disconnected, authenticated, jwt_token, modeVars, histVars>>

\* ------------------------------------------------------------------------
\* Domain file parsing and monitor operations
\* ------------------------------------------------------------------------
\* load_domains() on an existing file: {name: url} from the lines with at
\* least three fields, a later line of the same name overwriting the earlier
load_domains(lines) ==
  LET F[i \in 0..Len(lines)] ==
        IF i = 0 THEN <<>>
        ELSE IF Len(lines[i]) >= 3
             THEN Put(F[i-1], lines[i][1], lines[i][3])
             ELSE F[i-1]
  IN F[Len(lines)]

\* mutation: the filter without its parent test
IsManaged_AnyParent(monitor) == monitor.type = "http"

\* line 169: the monitors this tool manages
IsManaged(monitor) == monitor.parent = PARENT_GROUP_ID /\ monitor.type = "http"

\* mutation: existing keyed by url instead of name
get_existing_monitors_ByUrl(ml) ==
  LET F[i \in 0..Len(ml)] ==
        IF i = 0 THEN <<>>
        ELSE IF ml[i].parent = PARENT_GROUP_ID /\ ml[i].type = "http"
             THEN Put(F[i-1], ml[i].url, [id |-> ml[i].id, url |-> ml[i].url])
             ELSE F[i-1]
  IN F[Len(ml)]

\* get_existing_monitors(): {name: {id, url}} of the managed monitors of the
\* directory ml, a later monitor of the same name overwriting the earlier
get_existing_monitors(ml) ==
  LET F[i \in 0..Len(ml)] ==
        IF i = 0 THEN <<>>
        ELSE IF IsManaged(ml[i])
             THEN Put(F[i-1], ml[i].name, [id |-> ml[i].id, url |-> ml[i].url])
             ELSE F[i-1]
  IN F[Len(ml)]

\* create_monitor: the payload of the add call (lines 180-206; the fields
\* the remote service keeps for the monitor list and the settings)
monitor_data(name, url) ==
  [name |-> name, type |-> "http", url |-> url, method |-> "GET",
   interval |-> MONITOR_INTERVAL, retryInterval |-> MONITOR_RETRY_INTERVAL,
   timeout |-> MONITOR_TIMEOUT, maxretries |-> MONITOR_MAX_RETRIES,
   maxredirects |-> MONITOR_MAX_REDIRECTS, parent |-> PARENT_GROUP_ID,
   notificationIDList |-> DEFAULT_NOTIFICATION_IDS]

\* the remote service adds the monitor of an add call it carried out
RemoteAdd(data) ==
  Append(remote, [id |-> next_id, name |-> data.name, url |-> data.url,
                  type |-> data.type, parent |-> data.parent])

\* the remote service removes the monitor of a deleteMonitor call it carried out
RemoteDelete(id) == SelectSeq(remote, LAMBDA m : m.id # id)

\* a call the remote service answered ok was carried out, a rejected one was
\* not, and one that timed out may or may not have been
MayApply(r, applied) ==
  /\ IsOk(r) => applied
  /\ (r.answered /\ ~r.ok) => ~applied

\* mutation: the membership test of line 245 inverted
SyncMissing_Inverted(name, ex) == name \in Keys(ex)

\* line 245: name not in existing
SyncMissing(name, ex) == name \notin Keys(ex)

\* mutation: the preview compares with the monitors instead of the domains
PreviewObsolete_Inverted(name, ds) == name \in Keys(ds)

\* line 277: name not in domains (preview)
PreviewObsolete(name, ds) == name \notin Keys(ds)

\* mutation: the confirm loop deletes the monitors that are in domains
ConfirmObsolete_Inverted(name, ds) == name \in Keys(ds)

\* line 295: name not in domains (confirm)
ConfirmObsolete(name, ds) == name \notin Keys(ds)

\* sorted(existing.items()) of cmd_list, as the printed [id] name - url lines
sorted_items(ex) ==
  LET F[i \in 0..Len(SortedNames)] ==
        IF i = 0 THEN <<>>
        ELSE IF SortedNames[i] \in Keys(ex)
             THEN Append(F[i-1], [id |-> Get(ex, SortedNames[i]).id,
                                  name |-> SortedNames[i],
                                  url |-> Get(ex, SortedNames[i]).url])
             ELSE F[i-1]
  IN F[Len(SortedNames)]

\* lines 275-279: the to_delete list of cmd_cleanup_preview, each printed
to_delete(ds, ex) ==
  LET F[i \in 0..Len(ex)] ==
        IF i = 0 THEN <<>>
        ELSE IF PreviewObsolete(ex[i].key, ds)
             THEN Append(F[i-1], [id |-> ex[i].val.id, name |-> ex[i].key,
                                  url |-> ex[i].val.url])
             ELSE F[i-1]
  IN F[Len(ex)]

\* the create and delete calls of a run
ModeCalls(cs) == SelectSeq(cs, LAMBDA c : c.event \in {"add", "deleteMonitor"})

\* ------------------------------------------------------------------------
\* main: the mode, inside try ... finally: sio.disconnect()
\* ------------------------------------------------------------------------
\* leaving the try block: the finally clause disconnects, the process ends
Finally(status, at) ==
  /\ connected' = FALSE
  /\ disconnected' = TRUE
  /\ pc' = "exited"
  /\ exit_code' = <<status>>
  /\ exit_at' = at

\* load_domains() of cmd_sync, cmd_cleanup_preview and cmd_cleanup_confirm
\* when the domains file does not exist: sys.exit(1), after time.sleep(1)
load_domains_Missing ==
  /\ pc = "sleep"
  /\ args \in {"sync", "cleanup", "cleanup_confirm"}
  /\ ~domains_file.exists
  /\ Finally(1, "load_domains")
  /\ UNCHANGED <<envVars, args, server_session, monitor_list, snapshot_seen,
                 authenticated, jwt_token, modeVars, calls, Mread, jwt_at_start>>

\* time.sleep(1), then cmd_sync up to its loop (lines 240-243)
cmd_sync_Start ==
  /\ pc = "sleep"
  /\ args = "sync"
  /\ domains_file.exists
  /\ domains' = load_domains(domains_file.lines)
  /\ existing' = get_existing_monitors(monitor_list)
  /\ Mread' = <<monitor_list>>
  /\ idx' = 1
  /\ count' = 0
  /\ pc' = "cmd_sync"
  /\ UNCHANGED <<envVars, args, connected, server_session, exit_code, disconnected,
                 monitor_list, snapshot_seen, authenticated, jwt_token, listed,
                 report, calls, jwt_at_start, exit_at>>

\* lines 244-245: a name that is in existing is passed over
cmd_sync_Skip ==
  /\ pc = "cmd_sync"
  /\ idx <= Len(domains)
  /\ ~SyncMissing(domains[idx].key, existing)
  /\ idx' = idx + 1
  /\ UNCHANGED <<envVars, procVars, domains, existing, count, listed, report,
                 histVars>>

\* mutation: the add is emitted without waiting for its response
cmd_sync_Create_NoWait ==
  /\ pc = "cmd_sync"
  /\ idx <= Len(domains)
  /\ SyncMissing(domains[idx].key, existing)
  /\ calls' = Emit(calls, "add", monitor_data(domains[idx].key, domains[idx].val))
  /\ idx' = idx + 1
  /\ UNCHANGED <<envVars, procVars, domains, existing, count, listed, report,
                 Mread, jwt_at_start, exit_at>>

\* lines 244-246, 208: create_monitor emits the add call
cmd_sync_Create ==
  /\ pc = "cmd_sync"
  /\ idx <= Len(domains)
  /\ SyncMissing(domains[idx].key, existing)
  /\ calls' = Emit(calls, "add", monitor_data(domains[idx].key, domains[idx].val))
  /\ pc' = "add"
  /\ UNCHANGED <<envVars, args, connected, server_session, exit_code, disconnected,
                 monitor_list, snapshot_seen, authenticated, jwt_token, modeVars,
                 Mread, jwt_at_start, exit_at>>

\* mutation: existing is read again from the directory after every create
create_monitor_Return_RereadsDirectory ==
  /\ pc = "add"
  /\ \E r \in PlainResponses, applied \in BOOLEAN :
       /\ MayApply(r, applied)
       /\ calls' = Return(r)
       /\ count' = IF IsOk(r) THEN count + 1 ELSE count
       /\ IF applied
          THEN /\ remote' = RemoteAdd(calls[Len(calls)].data)
               /\ next_id' = next_id + 1
          ELSE UNCHANGED <<remote, next_id>>
  /\ existing' = get_existing_monitors(monitor_list)
  /\ idx' = idx + 1
  /\ pc' = "cmd_sync"
  /\ UNCHANGED <<run, hist, domains_file, jwt_file, USERNAME, PASSWORD, args,
                 connected, server_session, exit_code, disconnected, monitor_list,
                 snapshot_seen, authenticated, jwt_token, domains, listed,
                 report, Mread, jwt_at_start, exit_at>>

\* mutation: a failed create ends the loop
create_monitor_Return_AbortsOnFailure ==
  /\ pc = "add"
  /\ \E r \in PlainResponses, applied \in BOOLEAN :
       /\ MayApply(r, applied)
       /\ calls' = Return(r)
       /\ count' = IF IsOk(r) THEN count + 1 ELSE count
       /\ idx' = IF IsOk(r) THEN idx + 1 ELSE Len(domains) + 1
       /\ IF applied
          THEN /\ remote' = RemoteAdd(calls[Len(calls)].data)
               /\ next_id' = next_id + 1
          ELSE UNCHANGED <<remote, next_id>>
  /\ pc' = "cmd_sync"
  /\ UNCHANGED <<run, hist, domains_file, jwt_file, USERNAME, PASSWORD, args,
                 connected, server_session, exit_code, disconnected, monitor_list,
                 snapshot_seen, authenticated, jwt_token, domains, existing, listed,
                 report, Mread, jwt_at_start, exit_at>>

\* lines 210-217, 246-248: the add call returns, created counts the ok
\* answers, time.sleep(0.2), next name
create_monitor_Return ==
  /\ pc = "add"
  /\ \E r \in PlainResponses, applied \in BOOLEAN :
       /\ MayApply(r, applied)
       /\ calls' = Return(r)
       /\ count' = IF IsOk(r) THEN count + 1 ELSE count
       /\ IF applied
          THEN /\ remote' = RemoteAdd(calls[Len(calls)].data)
               /\ next_id' = next_id + 1
          ELSE UNCHANGED <<remote, next_id>>
  /\ idx' = idx + 1
  /\ pc' = "cmd_sync"
  /\ UNCHANGED <<run, hist, domains_file, jwt_file, USERNAME, PASSWORD, args,
                 connected, server_session, exit_code, disconnected, monitor_list,
                 snapshot_seen, authenticated, jwt_token, domains, existing, listed,
                 report, Mread, jwt_at_start, exit_at>>

\* mutation: a Sync with a failed create ends with status 1
cmd_sync_Done_FailsOnErrors ==
  /\ pc = "cmd_sync"
  /\ idx > Len(domains)
  /\ report' = <<[count |-> count, total |-> Len(domains)]>>
  /\ Finally(IF count < Len(ModeCalls(calls)) THEN 1 ELSE 0, "mode")
  /\ UNCHANGED <<envVars, args, server_session, monitor_list, snapshot_seen,
                 authenticated, jwt_token, domains, existing, idx, count, listed,
                 calls, Mread, jwt_at_start>>

\* lines 250-252: the loop is over, the summary is printed
cmd_sync_Done ==
  /\ pc = "cmd_sync"
  /\ idx > Len(domains)
  /\ report' = <<[count |-> count, total |-> Len(domains)]>>
  /\ Finally(0, "mode")
  /\ UNCHANGED <<envVars, args, server_session, monitor_list, snapshot_seen,
                 authenticated, jwt_token, domains, existing, idx, count, listed,
                 calls, Mread, jwt_at_start>>

\* time.sleep(1), then cmd_list
cmd_list ==
  /\ pc = "sleep"
  /\ args = "list"
  /\ existing' = get_existing_monitors(monitor_list)
  /\ Mread' = <<monitor_list>>
  /\ listed' = sorted_items(existing')
  /\ report' = <<[count |-> Len(existing'), total |-> Len(existing')]>>
  /\ Finally(0, "mode")
  /\ UNCHANGED <<envVars, args, server_session, monitor_list, snapshot_seen,
                 authenticated, jwt_token, domains, idx, count, calls, jwt_at_start>>

\* time.sleep(1), then cmd_cleanup_preview
cmd_cleanup_preview ==
  /\ pc = "sleep"
  /\ args = "cleanup"
  /\ domains_file.exists
  /\ domains' = load_domains(domains_file.lines)
  /\ existing' = get_existing_monitors(monitor_list)
  /\ Mread' = <<monitor_list>>
  /\ listed' = to_delete(domains', existing')
  /\ report' = <<[count |-> Len(listed'), total |-> Len(existing')]>>
  /\ Finally(0, "mode")
  /\ UNCHANGED <<envVars, args, server_session, monitor_list, snapshot_seen,
                 authenticated, jwt_token, idx, count, calls, jwt_at_start>>

\* mutation: the dispatch of main runs cmd_cleanup_confirm for --cleanup too
cmd_cleanup_confirm_Start_OnCleanup ==
  /\ pc = "sleep"
  /\ args \in {"cleanup", "cleanup_confirm"}
  /\ domains_file.exists
  /\ domains' = load_domains(domains_file.lines)
  /\ existing' = get_existing_monitors(monitor_list)
  /\ Mread' = <<monitor_list>>
  /\ idx' = 1
  /\ count' = 0
  /\ pc' = "cmd_cleanup_confirm"
  /\ UNCHANGED <<envVars, args, connected, server_session, exit_code, disconnected,
                 monitor_list, snapshot_seen, authenticated, jwt_token, listed,
                 report, calls, jwt_at_start, exit_at>>

\* time.sleep(1), then cmd_cleanup_confirm up to its loop (lines 290-293)
cmd_cleanup_confirm_Start ==
  /\ pc = "sleep"
  /\ args = "cleanup_confirm"
  /\ domains_file.exists
  /\ domains' = load_domains(domains_file.lines)
  /\ existing' = get_existing_monitors(monitor_list)
  /\ Mread' = <<monitor_list>>
  /\ idx' = 1
  /\ count' = 0
  /\ pc' = "cmd_cleanup_confirm"
  /\ UNCHANGED <<envVars, args, connected, server_session, exit_code, disconnected,
                 monitor_list, snapshot_seen, authenticated, jwt_token, listed,
                 report, calls, jwt_at_start, exit_at>>

\* lines 294-295: a monitor whose name is in domains is passed over
cmd_cleanup_confirm_Skip ==
  /\ pc = "cmd_cleanup_confirm"
  /\ idx <= Len(existing)
  /\ ~ConfirmObsolete(existing[idx].key, domains)
  /\ idx' = idx + 1
  /\ UNCHANGED <<envVars, procVars, domains, existing, count, listed, report,
                 histVars>>

\* lines 294-296, 222: delete_monitor emits the deleteMonitor call
cmd_cleanup_confirm_Delete ==
  /\ pc = "cmd_cleanup_confirm"
  /\ idx <= Len(existing)
  /\ ConfirmObsolete(existing[idx].key, domains)
  /\ calls' = Emit(calls, "deleteMonitor", existing[idx].val.id)
  /\ pc' = "deleteMonitor"
  /\ UNCHANGED <<envVars, args, connected, server_session, exit_code, disconnected,
                 monitor_list, snapshot_seen, authenticated, jwt_token, modeVars,
                 Mread, jwt_at_start, exit_at>>

\* lines 224-230, 296-298: the deleteMonitor call returns, deleted counts
\* the ok answers, time.sleep(0.2), next monitor
delete_monitor_Return ==
  /\ pc = "deleteMonitor"
  /\ \E r \in PlainResponses, applied \in BOOLEAN :
       /\ MayApply(r, applied)
       /\ calls' = Return(r)
       /\ count' = IF IsOk(r) THEN count + 1 ELSE count
       /\ remote' = IF applied THEN RemoteDelete(calls[Len(calls)].data) ELSE remote
  /\ idx' = idx + 1
  /\ pc' = "cmd_cleanup_confirm"
  /\ UNCHANGED <<run, hist, domains_file, jwt_file, USERNAME, PASSWORD, next_id,
                 args, connected, server_session, exit_code, disconnected,
                 monitor_list, snapshot_seen, authenticated, jwt_token, domains,
                 existing, listed, report, Mread, jwt_at_start, exit_at>>

\* lines 300-301: the loop is over, the summary is printed
cmd_cleanup_confirm_Done ==
  /\ pc = "cmd_cleanup_confirm"
  /\ idx > Len(existing)
  /\ report' = <<[count |-> count, total |-> Len(existing)]>>
  /\ Finally(0, "mode")
  /\ UNCHANGED <<envVars, args, server_session, monitor_list, snapshot_seen,
                 authenticated, jwt_token, domains, existing, idx, count, listed,
                 calls, Mread, jwt_at_start>>

\* ------------------------------------------------------------------------
\* The next invocation
\* ------------------------------------------------------------------------
\* the tool is invoked again after the process has ended: a fresh process
\* with the files and the remote service as the last one left them
Invoke ==
  /\ pc = "exited"
  /\ run < MaxRuns
  /\ run' = run + 1
  /\ hist' = Append(hist, [args |-> args, Mread |-> Mread, listed |-> listed,
                           calls |-> ModeCalls(calls), report |-> report])
  /\ jwt_at_start' = jwt_file
  /\ pc' = "main"
  /\ args' \in Modes
  /\ connected' = FALSE
  /\ server_session' = FALSE
  /\ exit_code' = <<>>
  /\ exit_at' = ""
  /\ disconnected' = FALSE
  /\ monitor_list' = <<>>
  /\ snapshot_seen' = FALSE
  /\ authenticated' = FALSE
  /\ jwt_token' = None
  /\ domains' = <<>>
  /\ existing' = <<>>
  /\ idx' = 0
  /\ count' = 0
  /\ listed' = <<>>
  /\ report' = <<>>
  /\ calls' = <<>>
  /\ Mread' = <<>>
  /\ UNCHANGED <<domains_file, jwt_file, USERNAME, PASSWORD, remote, next_id>>

Next ==
  \/ main_NoMode
  \/ main_Connect
  \/ main_ConnectFailed
  \/ authenticate_TryToken
  \/ authenticate_NoToken
  \/ authenticate_TokenAccepted
  \/ authenticate_TokenRejected
  \/ authenticate_LoginAccepted
  \/ authenticate_LoginRejected
  \/ on_monitor_list
  \/ load_domains_Missing
  \/ cmd_sync_Start
  \/ cmd_sync_Skip
  \/ cmd_sync_Create
  \/ create_monitor_Return
  \/ cmd_sync_Done
  \/ cmd_list
  \/ cmd_cleanup_preview
  \/ cmd_cleanup_confirm_Start
  \/ cmd_cleanup_confirm_Skip
  \/ cmd_cleanup_confirm_Delete
  \/ delete_monitor_Return
  \/ cmd_cleanup_confirm_Done

\* one invocation of the tool
Spec == Init /\ [][Next]_vars

\* the tool invoked again and again, as its scheduler does
NextRerun == Next \/ Invoke

SpecRerun == Init /\ [][NextRerun]_vars

\* ------------------------------------------------------------------------
\* Vocabulary of the properties, stated on the inputs and on the call log
\* ------------------------------------------------------------------------
\* D: the names the domains file maps (its lines of at least three fields)
DomainNames ==
  {domains_file.lines[i][1] :
     i \in {j \in DOMAIN domains_file.lines : Len(domains_file.lines[j]) >= 3}}

\* the urls D gives for a name
DomainUrls(n) ==
  {domains_file.lines[i][3] :
     i \in {j \in DOMAIN domains_file.lines :
              Len(domains_file.lines[j]) >= 3 /\ domains_file.lines[j][1] = n}}

\* filtered(M): the monitors of a directory with parent == configured group
\* and type == http
Filtered(M) ==
  {M[i] : i \in {j \in DOMAIN M : M[j].parent = PARENT_GROUP_ID /\ M[j].type = "http"}}

\* the monitors of a directory every mode is to ignore
Ignored(M) ==
  {M[i] : i \in {j \in DOMAIN M : M[j].parent # PARENT_GROUP_ID \/ M[j].type # "http"}}

\* the mode has read the Monitor Directory M
HasRead == Mread # <<>>

\* the selected mode ran to its summary
ModeDone == pc = "exited" /\ exit_at = "mode"

\* number of calls of an event issued so far in this run
CallCount(event) == Cardinality({i \in DOMAIN calls : calls[i].event = event})

\* number of create-monitor calls issued for a name
CreateCount(n) ==
  Cardinality({i \in DOMAIN calls : calls[i].event = "add" /\ calls[i].data.name = n})

\* number of delete-monitor calls issued for an identifier
DeleteCount(id) ==
  Cardinality({i \in DOMAIN calls : calls[i].event = "deleteMonitor" /\ calls[i].data = id})

DeletedIds == {calls[i].data : i \in {j \in DOMAIN calls : calls[j].event = "deleteMonitor"}}

ListedIds == {listed[i].id : i \in DOMAIN listed}

\* ------------------------------------------------------------------------
\* C1
\* ------------------------------------------------------------------------
\* name n of D is the name of no monitor of filtered(M)
WantsCreate(n) ==
  n \in DomainNames /\ \A m \in Filtered(Mread[1]) : m.name # n

\* C1: one run of Sync on D and the directory M it read issues exactly one
\* create-monitor call for each name of D that names no monitor of
\* filtered(M), and no create-monitor call for any other name: never more
\* while the run lasts, exactly that many once it is over.
C1_SyncCreatesMissing ==
  (args = "sync" /\ HasRead) =>
     /\ \A i \in DOMAIN calls :
          calls[i].event = "add" => WantsCreate(calls[i].data.name)
     /\ \A n \in Names :
          /\ CreateCount(n) <= 1
          /\ (ModeDone /\ WantsCreate(n)) => CreateCount(n) = 1

\* a finished Sync that created one name of D and passed over another
C1_Witness ==
  /\ args = "sync"
  /\ ModeDone
  /\ \E n \in DomainNames : CreateCount(n) = 1
  /\ \E n \in DomainNames : CreateCount(n) = 0

\* ------------------------------------------------------------------------
\* C2
\* ------------------------------------------------------------------------
\* the invocation before this one was a Sync that ran to its summary with
\* every create-monitor call answered ok
PreviousSyncSucceeded ==
  /\ run > 1
  /\ hist[run - 1].args = "sync"
  /\ hist[run - 1].report # <<>>
  /\ \A i \in DOMAIN hist[run - 1].calls : IsOk(hist[run - 1].calls[i].resp)

\* C2: Sync is idempotent: a Sync invoked after a Sync on the same D, the
\* remote service changed by nothing but the creates of the first, issues
\* zero create-monitor calls.  (Stated for the first run's best case: it ran
\* to its end and every one of its creates was carried out.)
C2_SecondSyncCreatesNothing ==
  (args = "sync" /\ PreviousSyncSucceeded) => CallCount("add") = 0

\* ------------------------------------------------------------------------
\* C3
\* ------------------------------------------------------------------------
\* the identifiers cmd_cleanup_preview lists on the domains file and the
\* directory M
PreviewIds(M) ==
  LET lines == to_delete(load_domains(domains_file.lines), get_existing_monitors(M))
  IN {lines[i].id : i \in DOMAIN lines}

\* C3: on the same D and M cleanup-preview and cleanup-confirm compute the
\* same delete-set: what a finished preview printed is the preview of the
\* directory it read, and the identifiers a finished confirm issued
\* delete-monitor calls for are exactly those preview lists on the D and M
\* the confirm run had (and no more than those while it runs).
C3_PreviewEqualsConfirm ==
  /\ (args = "cleanup" /\ ModeDone) => ListedIds = PreviewIds(Mread[1])
  /\ (args = "cleanup_confirm" /\ HasRead) => DeletedIds \subseteq PreviewIds(Mread[1])
  /\ (args = "cleanup_confirm" /\ ModeDone) => DeletedIds = PreviewIds(Mread[1])

\* a finished confirm that deleted one monitor and kept another of the group
C3_Witness ==
  /\ args = "cleanup_confirm"
  /\ ModeDone
  /\ DeletedIds # {}
  /\ \E m \in Filtered(Mread[1]) : m.id \notin DeletedIds /\ m.name \in DomainNames

\* ------------------------------------------------------------------------
\* C4
\* ------------------------------------------------------------------------
\* C4: a finished cleanup-confirm has issued exactly one delete-monitor
\* call, by identifier, for every monitor of the directory with parent ==
\* configured group, type == http and a name absent from D, also when
\* several monitors of the group share a name.
C4_ConfirmDeletesEveryObsolete ==
  (args = "cleanup_confirm" /\ ModeDone) =>
     \A m \in Filtered(Mread[1]) :
        m.name \notin DomainNames => DeleteCount(m.id) = 1

\* ------------------------------------------------------------------------
\* C5
\* ------------------------------------------------------------------------
\* C5: no delete-monitor call is ever issued for a monitor of the directory
\* whose name is a key of D.
C5_NeverDeletesDesired ==
  HasRead =>
     \A m \in {Mread[1][i] : i \in DOMAIN Mread[1]} :
        m.name \in DomainNames => DeleteCount(m.id) = 0

\* a confirm that issued a delete while the group held a monitor named in D
C5_Witness ==
  /\ args = "cleanup_confirm"
  /\ HasRead
  /\ DeletedIds # {}
  /\ \E m \in Filtered(Mread[1]) : m.name \in DomainNames

\* ------------------------------------------------------------------------
\* C6
\* ------------------------------------------------------------------------
\* monitors of the managed group named in D whose url is not D's url
UrlMismatches(M) ==
  {m \in Filtered(M) : m.name \in DomainNames /\ m.url \notin DomainUrls(m.name)}

\* C6: identity is by name only: a monitor of the managed group whose name
\* is in D and whose url differs from D's url for that name causes neither
\* a create-monitor call for its name nor a delete-monitor call for its
\* identifier.
C6_NameIdentityOnly ==
  HasRead =>
     \A m \in UrlMismatches(Mread[1]) :
        CreateCount(m.name) = 0 /\ DeleteCount(m.id) = 0

\* a finished Sync that created a name of D beside a monitor of another
\* name of D with a differing url
C6_Witness ==
  /\ args = "sync"
  /\ ModeDone
  /\ UrlMismatches(Mread[1]) # {}
  /\ CallCount("add") > 0

\* ------------------------------------------------------------------------
\* C7
\* ------------------------------------------------------------------------
\* C7: a monitor whose parent differs from the configured group or whose
\* type is not http is ignored by every mode: no delete-monitor call names
\* its identifier, no printed line lists it, and when its name is a name of
\* D that names no monitor of filtered(M), a finished Sync has still issued
\* the create-monitor call for that name.
C7_IgnoresUnmanaged ==
  HasRead =>
     \A m \in Ignored(Mread[1]) :
        /\ DeleteCount(m.id) = 0
        /\ m.id \notin ListedIds
        /\ (args = "sync" /\ ModeDone /\ WantsCreate(m.name)) => CreateCount(m.name) = 1

\* a finished Sync that created a name an ignored monitor carries
C7_Witness ==
  /\ args = "sync"
  /\ ModeDone
  /\ \E m \in Ignored(Mread[1]) : CreateCount(m.name) = 1

\* ------------------------------------------------------------------------
\* C8
\* ------------------------------------------------------------------------
\* the remote service answered the token-login call of this run with ok
TokenAccepted ==
  \E i \in DOMAIN calls :
     /\ calls[i].event = "loginByToken"
     /\ calls[i].done
     /\ calls[i].resp.answered /\ calls[i].resp.ok

\* the Authenticator is in Success: authenticate() has returned True
AuthSuccess ==
  authenticated /\ pc \notin {"main", "authenticate", "loginByToken", "login"}

\* C8: when the Session Store holds a token and the token-login call is
\* answered ok, the Authenticator is in Success, no credential-login call
\* is issued in the run and the Session Store keeps its content.
C8_TokenLoginSuffices ==
  TokenAccepted =>
     /\ AuthSuccess
     /\ CallCount("login") = 0
     /\ jwt_file = jwt_at_start

\* a run that logged in by token and ran its mode to the end
C8_Witness ==
  /\ TokenAccepted
  /\ jwt_at_start = StoredToken
  /\ ModeDone

\* ------------------------------------------------------------------------
\* C9
\* ------------------------------------------------------------------------
CredentialsConfigured == USERNAME # "" /\ PASSWORD # ""

\* the token-login call of this run returned without ok (rejected, timed
\* out or failed in transport)
TokenRefused ==
  \E i \in DOMAIN calls :
     /\ calls[i].event = "loginByToken"
     /\ calls[i].done
     /\ ~(calls[i].resp.answered /\ calls[i].resp.ok)

\* authenticate() has run with no token in the Session Store
TokenAbsent ==
  /\ jwt_at_start \in {None, ""}
  /\ pc \notin {"main", "authenticate"}
  /\ exit_at \notin {"usage", "connect"}

\* C9: when the token is absent or the token-login call did not succeed,
\* and credentials are configured, exactly one credential-login call is
\* issued; once a credential-login call has succeeded with a token in its
\* response, the Session Store holds that token, in every later state of
\* the run.
C9_FallbackLogsInOnceAndSaves ==
  /\ ((TokenAbsent \/ TokenRefused) /\ CredentialsConfigured) => CallCount("login") = 1
  /\ \A i \in DOMAIN calls :
       (/\ calls[i].event = "login"
        /\ calls[i].done
        /\ calls[i].resp.answered /\ calls[i].resp.ok
        /\ calls[i].resp.token # "")
       => jwt_file = calls[i].resp.token

\* a run whose stored token was refused, that logged in with credentials,
\* received a new token and ran its mode to the end
C9_Witness ==
  /\ TokenRefused
  /\ jwt_at_start = StoredToken
  /\ jwt_file = NewToken
  /\ ModeDone

\* ------------------------------------------------------------------------
\* C10
\* ------------------------------------------------------------------------
\* C10: a run issues at most one token-login call and at most one
\* credential-login call, and never a token-login call after a
\* credential-login call; no authentication call is repeated.
C10_AtMostTwoLogins ==
  /\ CallCount("loginByToken") <= 1
  /\ CallCount("login") <= 1
  /\ \A i, j \in DOMAIN calls :
       (calls[i].event = "login" /\ calls[j].event = "loginByToken") => j < i

\* a run whose token-login was refused and whose credential-login timed out
C10_Witness ==
  /\ TokenRefused
  /\ CallCount("login") = 1
  /\ pc = "exited"
  /\ exit_at = "login"
  /\ ~calls[Len(calls)].resp.answered

\* ------------------------------------------------------------------------
\* C11
\* ------------------------------------------------------------------------
\* C11: a delete-monitor call is issued only in mode cleanup-confirm; List
\* and cleanup-preview issue neither a create-monitor nor a delete-monitor
\* call, and Sync issues no delete-monitor call.
C11_OnlyConfirmDeletes ==
  /\ CallCount("deleteMonitor") > 0 => args = "cleanup_confirm"
  /\ args \in {"list", "cleanup"} =>
       CallCount("add") = 0 /\ CallCount("deleteMonitor") = 0
  /\ args = "sync" => CallCount("deleteMonitor") = 0

\* a finished cleanup-preview that listed an obsolete monitor
C11_Witness ==
  /\ args = "cleanup"
  /\ ModeDone
  /\ listed # <<>>

\* ------------------------------------------------------------------------
\* C12
\* ------------------------------------------------------------------------
\* the connection was opened in this run: the process went past sio.connect
ConnectionOpened ==
  /\ pc # "main"
  /\ exit_at \notin {"usage", "connect"}

\* C12: once the connection has been opened, every path on which the
\* process ends has performed the disconnect: the end of the mode, an exit
\* raised inside the mode, and a fatal authentication failure.
C12_AlwaysDisconnects ==
  (pc = "exited" /\ ConnectionOpened) => disconnected

\* ------------------------------------------------------------------------
\* C13
\* ------------------------------------------------------------------------
\* a mode that reads the domains file is selected and the file is missing
DomainsMissing ==
  /\ args \in {"sync", "cleanup", "cleanup_confirm"}
  /\ ~domains_file.exists

\* C13: with the domains file missing and a mode that reads it selected, the
\* process exits non-zero before any connection attempt: it never connects,
\* issues no call, and its exit status is not 0.
C13_MissingFileExitsBeforeConnect ==
  DomainsMissing =>
     /\ ~connected
     /\ ~disconnected
     /\ exit_at # "connect"
     /\ calls = <<>>
     /\ pc = "exited" => exit_code # <<0>>

\* ------------------------------------------------------------------------
\* C14
\* ------------------------------------------------------------------------
\* C14: no mode reads the Monitor Directory before a monitor snapshot push
\* has been received in this run, whenever the push arrives.
C14_ReadsAfterSnapshot ==
  HasRead => snapshot_seen

\* ------------------------------------------------------------------------
\* C15
\* ------------------------------------------------------------------------
\* the fatal errors: the initial connection failed, authentication failed,
\* or the selected mode found no domains file
FatalError ==
  \/ exit_at = "connect"
  \/ ConnectionOpened /\ ~authenticated
  \/ authenticated /\ DomainsMissing

\* some create or delete call of the run was rejected or timed out
SomeCallFailed ==
  \E i \in DOMAIN calls :
     /\ calls[i].event \in {"add", "deleteMonitor"}
     /\ calls[i].done
     /\ ~(calls[i].resp.answered /\ calls[i].resp.ok)

\* C15: the exit status is non-zero exactly when a fatal error occurred; it
\* is 0 when no mode flag is given, with no connection attempt, and when the
\* selected mode ran to completion, however many of its calls failed.
C15_ExitStatus ==
  pc = "exited" =>
     /\ exit_code # <<0>> <=> FatalError
     /\ args = "none" => exit_code = <<0>> /\ ~connected /\ ~disconnected /\ calls = <<>>
     /\ report # <<>> => exit_code = <<0>>

\* a mode that ran to completion with a failed call and ended with status 0
C15_Witness ==
  /\ pc = "exited"
  /\ report # <<>>
  /\ SomeCallFailed
  /\ exit_code = <<0>>

\* ------------------------------------------------------------------------
\* C16
\* ------------------------------------------------------------------------
\* number of calls of an event the remote service answered with ok == true
OkCount(event) ==
  Cardinality({i \in DOMAIN calls :
                 /\ calls[i].event = event
                 /\ calls[i].done
                 /\ calls[i].resp.answered /\ calls[i].resp.ok})

\* C16: in Sync and cleanup-confirm a call that fails (ok == false, timeout
\* or transport error) neither ends the batch nor is repeated: no name and
\* no identifier ever gets a second call, a finished mode has issued
\* exactly one call for every member of the create-set (the names of D that
\* name no monitor of filtered(M)) or of the delete-set (the identifiers
\* the mode computes on D and M, those preview lists), and the count it
\* reports is the number of calls answered ok.
C16_FailuresAreIndependent ==
  /\ \A n \in Names : CreateCount(n) <= 1
  /\ \A id \in 1..next_id : DeleteCount(id) <= 1
  /\ (args = "sync" /\ ModeDone) =>
       /\ \A n \in Names : WantsCreate(n) => CreateCount(n) = 1
       /\ report[1].count = OkCount("add")
  /\ (args = "cleanup_confirm" /\ ModeDone) =>
       /\ \A id \in PreviewIds(Mread[1]) : DeleteCount(id) = 1
       /\ report[1].count = OkCount("deleteMonitor")

\* a finished Sync whose first create timed out, whose second was answered
\* ok, and that reports one created monitor
C16_Witness ==
  /\ args = "sync"
  /\ ModeDone
  /\ CallCount("add") = 2
  /\ \E i \in DOMAIN calls :
       /\ calls[i].event = "add"
       /\ ~calls[i].resp.answered
       /\ i < Len(calls)
       /\ calls[Len(calls)].resp.ok
  /\ report[1].count = 1

\* ------------------------------------------------------------------------
\* C17
\* ------------------------------------------------------------------------
\* C17: at every moment of a run at most one RPC call is outstanding: a
\* call is issued only after every earlier call has returned (a response,
\* a timeout or a transport error), also while snapshot pushes arrive.
C17_OneOutstandingCall ==
  /\ Cardinality(Outstanding) <= 1
  /\ \A i \in DOMAIN calls : i < Len(calls) => calls[i].done

\* the second create of a Sync is outstanding, after the login and the
\* first create, and a push has replaced the directory the mode had read
C17_Witness ==
  /\ args = "sync"
  /\ pc = "add"
  /\ CallCount("add") = 2
  /\ Outstanding = {Len(calls)}
  /\ monitor_list # Mread[1]

\* ------------------------------------------------------------------------
\* C18
\* ------------------------------------------------------------------------
\* a mode has run or is running in this run
ModeStarted ==
  \/ pc \in {"cmd_sync", "add", "cmd_cleanup_confirm", "deleteMonitor"}
  \/ HasRead
  \/ report # <<>>
  \/ exit_at \in {"mode", "load_domains"}

\* some login call of this run was answered ok
LoginSucceeded ==
  \E i \in DOMAIN calls :
     /\ calls[i].event \in {"loginByToken", "login"}
     /\ calls[i].done
     /\ calls[i].resp.answered /\ calls[i].resp.ok

\* the credential-login call of this run returned without ok
LoginRefused ==
  \E i \in DOMAIN calls :
     /\ calls[i].event = "login"
     /\ calls[i].done
     /\ ~(calls[i].resp.answered /\ calls[i].resp.ok)

\* C18: no create-monitor or delete-monitor call is issued and no mode runs
\* unless the connection was opened and the Authenticator reached Success
\* earlier in the run; with the token absent or not accepted and the
\* username or the password not configured, the process has exited non-zero
\* with no credential-login, create-monitor or delete-monitor call; after a
\* credential-login that failed or timed out, it has exited non-zero with
\* no create-monitor or delete-monitor call.
C18_ModeOnlyAfterLogin ==
  /\ (ModeStarted \/ ModeCalls(calls) # <<>>) =>
        ConnectionOpened /\ authenticated /\ LoginSucceeded
  /\ ((TokenAbsent \/ TokenRefused) /\ ~CredentialsConfigured) =>
        /\ pc = "exited" /\ exit_code = <<1>>
        /\ ~ModeStarted
        /\ CallCount("login") = 0 /\ ModeCalls(calls) = <<>>
  /\ LoginRefused =>
        /\ pc = "exited" /\ exit_code = <<1>>
        /\ ~ModeStarted
        /\ ModeCalls(calls) = <<>>

\* a run that ended at the missing credentials after a refused token
C18_Witness ==
  /\ TokenRefused
  /\ ~CredentialsConfigured
  /\ pc = "exited"
  /\ exit_at = "credentials"

\* ------------------------------------------------------------------------
\* C19
\* ------------------------------------------------------------------------
\* the credential-login call of this run was answered ok
CredentialLoginSucceeded ==
  \E i \in DOMAIN calls :
     /\ calls[i].event = "login"
     /\ calls[i].done
     /\ calls[i].resp.answered /\ calls[i].resp.ok

\* the credential-login call of this run was answered ok with a token
CredentialLoginGaveToken ==
  \E i \in DOMAIN calls :
     /\ calls[i].event = "login"
     /\ calls[i].done
     /\ calls[i].resp.answered /\ calls[i].resp.ok
     /\ calls[i].resp.token # ""

\* C19 as claimed: whenever the credential-login call succeeded, a new
\* token is in the Session Store before any mode operation proceeds.
C19_LoginAlwaysStoresToken ==
  (CredentialLoginSucceeded /\ ModeStarted) => jwt_file = NewToken

\* C19, amended: whenever the credential-login call succeeded with a token
\* in its response, that token is in the Session Store (and in jwt_token)
\* before any mode operation proceeds; a success without a token writes
\* nothing and leaves the Session Store as it was.
C19_LoginStoresReturnedToken ==
  /\ (CredentialLoginGaveToken /\ ModeStarted) =>
        jwt_file = NewToken /\ jwt_token = NewToken
  /\ (CredentialLoginSucceeded /\ ~CredentialLoginGaveToken) =>
        jwt_file = jwt_at_start

\* a mode running its loop after a credential login that returned a token
C19_Witness ==
  /\ CredentialLoginGaveToken
  /\ pc \in {"cmd_sync", "add", "cmd_cleanup_confirm", "deleteMonitor"}
  /\ jwt_at_start # NewToken

\* ------------------------------------------------------------------------
\* C20
\* ------------------------------------------------------------------------
\* a push has replaced the directory since the mode read it
DirectoryReplaced == HasRead /\ monitor_list # Mread[1]

\* C20: the calls of one run of Sync or cleanup-confirm are determined by
\* the directory that was current when the mode started: after a push has
\* replaced the directory during the batch, the mode still works on the
\* existing dict of the directory it read, every create-monitor call is for
\* a name of D that names no monitor of that directory's filtered set and
\* every delete-monitor call for an identifier computed from it, and the
\* finished batch holds exactly these calls.
C20_BatchUsesStartSnapshot ==
  (DirectoryReplaced /\ args \in {"sync", "cleanup_confirm"}) =>
     /\ existing = get_existing_monitors(Mread[1])
     /\ \A i \in DOMAIN calls :
          /\ calls[i].event = "add" => WantsCreate(calls[i].data.name)
          /\ calls[i].event = "deleteMonitor" => calls[i].data \in PreviewIds(Mread[1])
     /\ ModeDone =>
          /\ args = "sync" => \A n \in Names : WantsCreate(n) => CreateCount(n) = 1
          /\ args = "cleanup_confirm" => DeletedIds = PreviewIds(Mread[1])

\* a finished Sync that issued two creates on an unpopulated directory while
\* a push delivered a directory holding the first created monitor
C20_Witness ==
  /\ args = "sync"
  /\ ModeDone
  /\ DirectoryReplaced
  /\ CallCount("add") = 2
  /\ \E m \in Filtered(monitor_list) : CreateCount(m.name) = 1

====
